---- MODULE Spec2Model ----
(***************************************************************************)
(* Model of scripts/visuals.js: the particle/line background controller.   *)
(*                                                                         *)
(* Lengths are fixed-point integers in 1/256 of a CSS pixel (Px(n) is n     *)
(* pixels), velocities in 1/256 pixel per frame.  Every such value is a    *)
(* double without rounding, so the sums, comparisons, wraps and the test   *)
(* "distance is zero" of the program are the same on both sides.  Three    *)
(* results are irrational or not dyadic and are rounded to the nearest     *)
(* 1/256: a fresh particle's velocity and radius, and a repulsion          *)
(* increment.  Math.random is a pseudo-random generator with values        *)
(* seed/1024: its state is the variable seed, its starting value is        *)
(* unknown (chosen in Init).  The host (browser) is modelled by the        *)
(* environment variables it exposes to the script and by the events it     *)
(* dispatches; handlers run to completion (one action per handler).        *)
(* TLC's integers are 32 bits wide: squares are taken only of differences *)
(* already known to be below a radius.                                     *)
(***************************************************************************)
EXTENDS Integers, Sequences, FiniteSets

VARIABLES
    phase,        \* "loading" | "nocanvas" | "inert" | "listening"
    visuals,      \* document.body.dataset.visuals (UNSET when absent)
    motion,       \* "unsupported" (no matchMedia) | "no-preference" | "reduce"
    innerWidth,   \* window.innerWidth, CSS px
    innerHeight,  \* window.innerHeight, CSS px
    dpr2,         \* window.devicePixelRatio in halves (0: missing/0, 1: 0.5, 2: 1.0, 4: 2.0)
    hidden,       \* document.hidden
    w, h,         \* canvas.width, canvas.height (backing store, device px)
    scale2,       \* the context transform's scale, in halves
    particles,    \* sequence of particle records
    animationId,  \* stored frame handle, NULL when none
    mouse,        \* [on |-> FALSE] is mouse.x = null
    pending,      \* host: handles of requested frames not yet fired or cancelled
    nextHandle,   \* host: next requestAnimationFrame handle
    seed,         \* Math.random generator state
    painted,      \* surface: the discs with paint on the bitmap, and the line passes
    frames,       \* number of gate-passing frame steps executed
    events,       \* number of host events dispatched
    last          \* name of the last handler / host event

vars == <<phase, visuals, motion, innerWidth, innerHeight, dpr2, hidden, w, h, scale2,
          particles, animationId, mouse, pending, nextHandle, seed, painted,
          frames, events, last>>

(* Bounds of the exploration *)
MaxFrames == 2
MaxEvents == 3
MaxSeed == 0

(* JS null for animationId; real handles are positive integers *)
NULL == 0
UNSET == "<unset>"

Px(n) == 256 * n

Max(a, b) == IF a > b THEN a ELSE b
Min(a, b) == IF a < b THEN a ELSE b

Abs(a) == IF a >= 0 THEN a ELSE -a

(* Truncating division (toward zero), for the fixed-point quotients *)
Quot(a, b) == IF a >= 0 THEN a \div b ELSE -((-a) \div b)

(* Division rounded to the nearest integer, b > 0 *)
RoundDiv(a, b) == IF a >= 0 THEN (2 * a + b) \div (2 * b) ELSE -((b - 2 * a) \div (2 * b))

(* Floor of the square root of n, searched in lo..hi by bisection *)
RECURSIVE SqrtIn(_, _, _)
SqrtIn(n, lo, hi) ==
    IF lo >= hi THEN lo
    ELSE LET mid == (lo + hi + 1) \div 2
         IN  IF mid * mid <= n THEN SqrtIn(n, mid, hi) ELSE SqrtIn(n, lo, mid - 1)

(* Floor of the square root of n, for 0 <= n < (hi + 1)^2 *)
ISqrt(n, hi) == SqrtIn(n, 0, hi)

(***************************************************************************)
(* Program constants                                                       *)
(***************************************************************************)
mouseRadius == 90
maxDistance == 120
(* the base alpha 0.12 of a line, in units of 1/256000 *)
baseAlpha == 30720
SmallScreen == 640
MinCount == 30
MaxCount == 120
AreaPerParticle == 16000
WrapMargin == 10

(***************************************************************************)
(* Inputs the host can present                                             *)
(***************************************************************************)
Attrs == {UNSET, "on", "off", "auto"}
(* values external code writes at run time *)
AttrWrites == {"off", "auto"}
Motions == {"unsupported", "no-preference", "reduce"}

(* Viewports: innerWidth, innerHeight (CSS px), devicePixelRatio in halves *)
Screens == { [iw |-> 1920, ih |-> 1080, d2 |-> 2],
             [iw |-> 1280, ih |-> 720,  d2 |-> 1],
             [iw |-> 640,  ih |-> 0,    d2 |-> 0] }

(* Pointer events: a mouse event has no touches, a touch event carries its
   touch points and no clientX/clientY of its own.  The mouse event is one
   of a drag that has left the window by its top left corner: the window
   keeps receiving mousemove, with negative client coordinates *)
MouseEvents == { [touches |-> <<>>, clientX |-> -10, clientY |-> -10] }
TouchEvents == { [touches |-> << [clientX |-> 700, clientY |-> 400],
                                 [clientX |-> 20,  clientY |-> 30] >>,
                  clientX |-> 0, clientY |-> 0] }

(***************************************************************************)
(* shouldRun: the run gate, from the three inputs it reads                 *)
(***************************************************************************)
shouldRun_Strict(m, width, attr) ==
    IF m # "unsupported" /\ m = "reduce" THEN FALSE
    ELSE IF width < SmallScreen THEN FALSE
    ELSE IF attr = "off" THEN FALSE
    ELSE TRUE

shouldRun_IgnoresAttr(m, width, attr) ==
    IF m # "unsupported" /\ m = "reduce" THEN FALSE
    ELSE IF width <= SmallScreen THEN FALSE
    ELSE TRUE

shouldRun_IgnoresWidth(m, width, attr) ==
    IF m # "unsupported" /\ m = "reduce" THEN FALSE
    ELSE IF attr = "off" THEN FALSE
    ELSE TRUE

shouldRun(m, width, attr) ==
    IF m # "unsupported" /\ m = "reduce" THEN FALSE
    ELSE IF width <= SmallScreen THEN FALSE
    ELSE IF attr = "off" THEN FALSE
    ELSE TRUE

(***************************************************************************)
(* Math.random: value seed/1024 in [0,1), then the generator advances (an  *)
(* additive generator, so the state after k draws has a closed form)       *)
(***************************************************************************)
SeedAfter(s, k) == (s + 131 * k) % 1024

(* (Math.random() - 0.5) * settings.speed * 2 for the draw s/1024, rounded *)
velocityOf(s) == RoundDiv((s - 512) * 6 * 256, 10 * 1024)

(* Math.random() * 1.8 + 0.6 for the draw s/1024, rounded *)
radiusOf(s) == RoundDiv(s * 18 * 256 + 6 * 256 * 1024, 10 * 1024)

(* createParticle: five draws, in the order x, y, vx, vy, r *)
createParticle(s, iw, ih) ==
    [ x  |-> (s * Px(iw)) \div 1024,
      y  |-> (SeedAfter(s, 1) * Px(ih)) \div 1024,
      vx |-> velocityOf(SeedAfter(s, 2)),
      vy |-> velocityOf(SeedAfter(s, 3)),
      r  |-> radiusOf(SeedAfter(s, 4)),
      nan |-> "none" ]

(* n times particles.push(createParticle()) *)
PushN(ps, s, n, iw, ih) ==
    [ ps   |-> ps \o [i \in 1..n |-> createParticle(SeedAfter(s, 5 * (i - 1)), iw, ih)],
      seed |-> SeedAfter(s, 5 * n) ]

(* target particle count for a viewport *)
Target(iw, ih) == Max(MinCount, Min(MaxCount, (iw * ih) \div AreaPerParticle))

(* while(particles.length < target) particles.push(createParticle()) *)
Grow(ps, s, target, iw, ih) ==
    IF Len(ps) < target THEN PushN(ps, s, target - Len(ps), iw, ih)
    ELSE [ps |-> ps, seed |-> s]

Trim_None(ps, target) == ps

Trim_Front(ps, target) ==
    IF Len(ps) > target THEN SubSeq(ps, Len(ps) - target + 1, Len(ps)) ELSE ps

(* while(particles.length > target) particles.pop() *)
Trim(ps, target) == IF Len(ps) > target THEN SubSeq(ps, 1, target) ELSE ps

(* devicePixelRatio || 1, in halves *)
Dpr2(d2) == IF d2 = 0 THEN 2 ELSE d2

(* Math.max(1, Math.floor(inner * dpr)) *)
CanvasDim(inner, d2) == Max(1, (inner * Dpr2(d2)) \div 2)

(* resize(): the particle set and generator state it leaves *)
resize(ps, s, iw, ih) ==
    LET g == Grow(ps, s, Target(iw, ih), iw, ih)
    IN  [ps |-> Trim(g.ps, Target(iw, ih)), seed |-> g.seed]

(***************************************************************************)
(* The frame step's per-particle work                                      *)
(***************************************************************************)
(* the two wrap tests of one axis, in program order *)
wrapAxis(v, size) ==
    LET a == IF v < -Px(WrapMargin) THEN Px(size) + Px(WrapMargin) ELSE v
    IN  IF a > Px(size) + Px(WrapMargin) THEN -Px(WrapMargin) ELSE a

(* dx / dist in 1/4096, for a distance below mouse.radius that is not zero:
   the offset is scaled up before the square root is taken, so that a short
   offset keeps its direction *)
Direction(dx, dy) ==
    LET k == Max(1, 16384 \div Max(Abs(dx), Abs(dy)))
        sx == dx * k
        sy == dy * k
        ds == ISqrt(sx * sx + sy * sy, 46340)
    IN  [dist |-> RoundDiv(ds, k),
         cx |-> RoundDiv(sx * 4096, ds),
         cy |-> RoundDiv(sy * 4096, ds)]

(* the body of if(mouse.x !== null) for a particle whose position is a
   number: dist = 0 makes dx / dist the quotient 0/0, NaN, and both velocity
   components become NaN; otherwise each component grows by
   (dx / dist) * 0.6 * (radius - dist) / radius, rounded *)
push(p, m) ==
    LET dx == p.x - Px(m.x)
        dy == p.y - Px(m.y)
    IN  IF Abs(dx) >= Px(mouseRadius) \/ Abs(dy) >= Px(mouseRadius) THEN p
        ELSE IF dx * dx + dy * dy >= Px(mouseRadius) * Px(mouseRadius) THEN p
        ELSE IF dx = 0 /\ dy = 0 THEN [p EXCEPT !.nan = "v"]
        ELSE LET d == Direction(dx, dy)
             IN  [p EXCEPT
                    !.vx = @ + RoundDiv(d.cx * (Px(mouseRadius) - d.dist) * 6,
                                        10 * 4096 * mouseRadius),
                    !.vy = @ + RoundDiv(d.cy * (Px(mouseRadius) - d.dist) * 6,
                                        10 * 4096 * mouseRadius)]

repel_AnyPointer(p, m) == push(p, m)

(* mouse repulsion: nothing while the pointer is absent *)
repel(p, m) == IF ~m.on THEN p ELSE push(p, m)

(* one iteration of the particle loop: integrate, wrap, repel.  nan = "v":
   the velocity is NaN, "pv": position and velocity are NaN (x += NaN; every
   comparison with NaN is false, so neither wrap nor repulsion applies) *)
moveParticle(p, iw, ih, m) ==
    IF p.nan # "none" THEN [p EXCEPT !.nan = "pv"]
    ELSE repel([p EXCEPT !.x = wrapAxis(p.x + p.vx, iw),
                         !.y = wrapAxis(p.y + p.vy, ih)], m)

moveAll(ps, iw, ih, m) == [i \in 1..Len(ps) |-> moveParticle(ps[i], iw, ih, m)]

(* dist < settings.maxDistance for the particles a and b; a NaN position
   makes dist NaN and the test false *)
Close(a, b) ==
    /\ a.nan # "pv" /\ b.nan # "pv"
    /\ Abs(a.x - b.x) < Px(maxDistance) /\ Abs(a.y - b.y) < Px(maxDistance)
    /\ (a.x - b.x) * (a.x - b.x) + (a.y - b.y) * (a.y - b.y)
          < Px(maxDistance) * Px(maxDistance)

(* pairs joined by a line in the second loop: i < j, distance below maxDistance *)
LinePairs(ps) ==
    { ij \in (1..Len(ps)) \X (1..Len(ps)) : ij[1] < ij[2] /\ Close(ps[ij[1]], ps[ij[2]]) }

pairLoop_AllOrdered(n) == [i \in 1..n |-> [k \in 1..n |-> <<i, k>>]]

(* the pairs the nested loops examine, row i being the inner loop of i:
   for(i = 0; i < n; i++) for(j = i + 1; j < n; j++) *)
pairLoop(n) == [i \in 1..n |-> [k \in 1..(n - i) |-> <<i, i + k>>]]

(* the alpha (in 1/256000) of the line stroked between a and b, as a set:
   empty when no line is stroked; dist is rounded down to 1/256 *)
lineAlpha(a, b) ==
    IF ~Close(a, b) THEN {}
    ELSE LET dx == a.x - b.x
             dy == a.y - b.y
         IN  { Quot(baseAlpha * (Px(maxDistance) - ISqrt(dx * dx + dy * dy, Px(maxDistance))),
                    Px(maxDistance)) }

(***************************************************************************)
(* The drawing surface.  User space is scaled by scale2/2 onto the bitmap  *)
(* of w x h device pixels.  painted.dots holds the discs that have paint   *)
(* on the bitmap, in drawing order.  painted.lines holds one entry for     *)
(* each line pass since the bitmap was last blank: the end points the pass *)
(* ran over (it stroked the pairs LinePairs(ends)) and the rectangle       *)
(* <<cw, ch>> erased from it since, <<0, 0>> when none.                    *)
(***************************************************************************)
Blank == [dots |-> <<>>, lines |-> <<>>]

(* the user-space length that b device pixels show under the scale sc2/2 *)
UserExtent(b, sc2) == (2 * Px(b)) \div sc2

(* distance from v to the interval lo..hi *)
Gap(v, lo, hi) == IF v < lo THEN lo - v ELSE IF v > hi THEN v - hi ELSE 0

(* the disc d (centre x, y, radius r) has paint in the rectangle x0..x1 by
   y0..y1 *)
DiscMeets(d, x0, x1, y0, y1) ==
    /\ x0 < x1 /\ y0 < y1
    /\ Gap(d.x, x0, x1) < d.r /\ Gap(d.y, y0, y1) < d.r
    /\ Gap(d.x, x0, x1) * Gap(d.x, x0, x1) + Gap(d.y, y0, y1) * Gap(d.y, y0, y1)
          < d.r * d.r

OnBitmap(d, sc2, bw, bh) ==
    DiscMeets(d, 0, UserExtent(bw, sc2), 0, UserExtent(bh, sc2))

(* ctx.clearRect(0, 0, cw, ch) on the bitmap bw x bh under the scale sc2/2:
   a disc keeps its paint right of or below the rectangle; a rectangle of
   zero width or height erases nothing, one that covers the bitmap leaves
   it blank *)
clearRect(pt, cw, ch, sc2, bw, bh) ==
    LET xm == UserExtent(bw, sc2)
        ym == UserExtent(bh, sc2)
        Left(d) == \/ DiscMeets(d, Px(cw), xm, 0, ym)
                   \/ DiscMeets(d, 0, xm, Px(ch), ym)
    IN  IF cw <= 0 \/ ch <= 0 THEN pt
        ELSE IF Px(cw) >= xm /\ Px(ch) >= ym THEN Blank
        ELSE [dots  |-> SelectSeq(pt.dots, Left),
              lines |-> [i \in 1..Len(pt.lines) |->
                           [pt.lines[i] EXCEPT
                              !.cut = <<Max(@[1], cw), Max(@[2], ch)>>]]]

(* ctx.arc + fill for every particle, in order; NaN coordinates draw nothing *)
drawDots(ps, sc2, bw, bh) ==
    SelectSeq([i \in 1..Len(ps) |-> [x |-> ps[i].x, y |-> ps[i].y, r |-> ps[i].r,
                                      nan |-> ps[i].nan]],
              LAMBDA d : d.nan # "pv" /\ OnBitmap(d, sc2, bw, bh))

(* the line pass over the particles: the end points it ran over *)
drawLines(ps) ==
    [ends |-> [i \in 1..Len(ps) |-> [x |-> ps[i].x, y |-> ps[i].y, nan |-> ps[i].nan]],
     cut  |-> <<0, 0>>]

(* the two loops of a frame on the surface pt *)
drawFrame(pt, ps, sc2, bw, bh) ==
    [dots  |-> pt.dots \o drawDots(ps, sc2, bw, bh),
     lines |-> Append(pt.lines, drawLines(ps))]

(* clearCanvas(): clearRect over canvas.width x canvas.height user units *)
clearCanvas(pt, sc2, bw, bh) == clearRect(pt, bw, bh, sc2, bw, bh)

(***************************************************************************)
(* The host's frame queue                                                  *)
(***************************************************************************)
cancelAnimationFrame_Noop(q, id) == q

cancelAnimationFrame(q, id) == q \ {id}

requestAnimationFrame(q, id) == q \cup {id}

nothingScheduled_Always(id) == TRUE

(* !animationId *)
nothingScheduled(id) == id = NULL

ShouldRun == shouldRun(motion, innerWidth, visuals)

visibilityChange_KeepsHandle(hd, id, q, nh, run) ==
    IF hd
    THEN [id |-> id, pending |-> cancelAnimationFrame(q, id), next |-> nh]
    ELSE IF nothingScheduled(id) /\ run
    THEN [id |-> nh, pending |-> requestAnimationFrame(q, nh), next |-> nh + 1]
    ELSE [id |-> id, pending |-> q, next |-> nh]

visibilityChange_KeepsPending(hd, id, q, nh, run) ==
    IF hd
    THEN [id |-> NULL, pending |-> q, next |-> nh]
    ELSE IF nothingScheduled(id) /\ run
    THEN [id |-> nh, pending |-> requestAnimationFrame(q, nh), next |-> nh + 1]
    ELSE [id |-> id, pending |-> q, next |-> nh]

visibilityChange_NoReentry(hd, id, q, nh, run) ==
    IF hd
    THEN [id |-> NULL,
          pending |-> IF ~nothingScheduled(id) THEN cancelAnimationFrame(q, id) ELSE q,
          next |-> nh]
    ELSE [id |-> id, pending |-> q, next |-> nh]

(* the body of onVisibility: hd is document.hidden, id the stored handle, q
   the host's pending frames, nh the host's next handle, run the gate *)
visibilityChange(hd, id, q, nh, run) ==
    IF hd
    THEN [id |-> NULL,
          pending |-> IF ~nothingScheduled(id) THEN cancelAnimationFrame(q, id) ELSE q,
          next |-> nh]
    ELSE IF nothingScheduled(id) /\ run
    THEN [id |-> nh, pending |-> requestAnimationFrame(q, nh), next |-> nh + 1]
    ELSE [id |-> id, pending |-> q, next |-> nh]

(***************************************************************************)
(* State after the script's top level has run: nothing allocated, init not *)
(* yet called.  phase = "nocanvas": getElementById found no canvas and the *)
(* script returned.  The canvas starts with the HTML default 300 x 150.    *)
(***************************************************************************)
Init ==
    /\ phase \in {"loading", "nocanvas"}
    /\ visuals \in Attrs
    /\ motion \in Motions
    /\ \E sc \in Screens :
         /\ innerWidth = sc.iw
         /\ innerHeight = sc.ih
         /\ dpr2 = sc.d2
    /\ hidden \in BOOLEAN
    /\ w = 300
    /\ h = 150
    /\ scale2 = 2
    /\ particles = <<>>
    /\ animationId = NULL
    /\ mouse = [on |-> FALSE, x |-> 0, y |-> 0]
    /\ pending = {}
    /\ nextHandle = 1
    /\ seed \in 0..MaxSeed
    /\ painted = Blank
    /\ frames = 0
    /\ events = 0
    /\ last = "none"

(***************************************************************************)
(* init(), called once when the DOM is ready                               *)
(***************************************************************************)
init ==
    /\ phase = "loading"
    /\ last' = "init"
    /\ LET attr == IF visuals = UNSET THEN "on" ELSE visuals
       IN  /\ visuals' = attr
           /\ IF ~shouldRun(motion, innerWidth, attr)
              THEN /\ phase' = "inert"
                   /\ UNCHANGED <<w, h, scale2, particles, animationId, pending,
                                  nextHandle, seed, painted>>
              ELSE LET r == resize(particles, seed, innerWidth, innerHeight)
                       f == PushN(r.ps, r.seed, Target(innerWidth, innerHeight),
                                  innerWidth, innerHeight)
                   IN  /\ phase' = "listening"
                       /\ w' = CanvasDim(innerWidth, dpr2)
                       /\ h' = CanvasDim(innerHeight, dpr2)
                       /\ scale2' = Dpr2(dpr2)
                       /\ painted' = Blank
                       /\ particles' = f.ps
                       /\ seed' = f.seed
                       /\ animationId' = nextHandle
                       /\ pending' = requestAnimationFrame(pending, nextHandle)
                       /\ nextHandle' = nextHandle + 1
    /\ UNCHANGED <<motion, innerWidth, innerHeight, dpr2, hidden, mouse, frames, events>>

(***************************************************************************)
(* step(): the host fires a pending frame callback                         *)
(***************************************************************************)
stepSchedule_None(id, q, nh) == [id |-> id, pending |-> q, next |-> nh]

(* animationId = requestAnimationFrame(step), the last statement of step *)
stepSchedule(id, q, nh) ==
    [id |-> nh, pending |-> requestAnimationFrame(q, nh), next |-> nh + 1]

step ==
    /\ \E hnd \in pending :
         LET q == pending \ {hnd}
         IN  IF ~ShouldRun
             THEN /\ pending' = cancelAnimationFrame(q, animationId)
                  /\ animationId' = NULL
                  /\ painted' = clearCanvas(painted, scale2, w, h)
                  /\ last' = "stop"
                  /\ UNCHANGED <<particles, nextHandle, frames>>
             ELSE /\ frames < MaxFrames
                  /\ particles' = moveAll(particles, innerWidth, innerHeight, mouse)
                  /\ painted' = drawFrame(clearRect(painted, innerWidth, innerHeight,
                                                     scale2, w, h),
                                           particles', scale2, w, h)
                  /\ animationId' = stepSchedule(animationId, q, nextHandle).id
                  /\ pending' = stepSchedule(animationId, q, nextHandle).pending
                  /\ nextHandle' = stepSchedule(animationId, q, nextHandle).next
                  /\ frames' = frames + 1
                  /\ last' = "step"
    /\ UNCHANGED <<phase, visuals, motion, innerWidth, innerHeight, dpr2, hidden,
                   w, h, scale2, mouse, seed, events>>

(***************************************************************************)
(* Host events after init has run (what the host did before is the        *)
(* initial state).  A handler runs only if init has registered it.         *)
(***************************************************************************)
Dispatch == phase # "loading" /\ events < MaxEvents /\ events' = events + 1

(* the host dispatches "resize"; sc is the viewport the handler reads,
   changed or not.  Assigning canvas.width resets the bitmap *)
onResize(sc) ==
    /\ Dispatch
    /\ innerWidth' = sc.iw
    /\ innerHeight' = sc.ih
    /\ dpr2' = sc.d2
    /\ last' = "resize"
    /\ IF phase = "listening"
       THEN LET r == resize(particles, seed, sc.iw, sc.ih)
            IN  /\ w' = CanvasDim(sc.iw, sc.d2)
                /\ h' = CanvasDim(sc.ih, sc.d2)
                /\ scale2' = Dpr2(sc.d2)
                /\ painted' = Blank
                /\ particles' = r.ps
                /\ seed' = r.seed
       ELSE UNCHANGED <<w, h, scale2, painted, particles, seed>>
    /\ UNCHANGED <<phase, visuals, motion, hidden, animationId, mouse, pending,
                   nextHandle, frames>>

pointerOf_LastTouch(e) ==
    [on |-> TRUE,
     x |-> IF Len(e.touches) >= 1 THEN e.touches[Len(e.touches)].clientX ELSE e.clientX,
     y |-> IF Len(e.touches) >= 1 THEN e.touches[Len(e.touches)].clientY ELSE e.clientY]

(* the two assignments of onMove: touches[0] when there is one, else the
   event's own clientX / clientY *)
pointerOf(e) ==
    [on |-> TRUE,
     x |-> IF Len(e.touches) >= 1 THEN e.touches[1].clientX ELSE e.clientX,
     y |-> IF Len(e.touches) >= 1 THEN e.touches[1].clientY ELSE e.clientY]

(* mousemove / touchmove *)
onMove(e, type) ==
    /\ Dispatch
    /\ type \in {"mousemove", "touchmove"}
    /\ last' = "move"
    /\ IF phase = "listening"
       THEN mouse' = pointerOf(e)
       ELSE UNCHANGED mouse
    /\ UNCHANGED <<phase, visuals, motion, innerWidth, innerHeight, dpr2, hidden, w, h,
                   scale2, particles, animationId, pending, nextHandle, seed, painted,
                   frames>>

(* mouseout / touchend *)
onLeave(type) ==
    /\ Dispatch
    /\ type \in {"mouseout", "touchend"}
    /\ last' = "leave"
    /\ IF phase = "listening"
       THEN mouse' = [on |-> FALSE, x |-> 0, y |-> 0]
       ELSE UNCHANGED mouse
    /\ UNCHANGED <<phase, visuals, motion, innerWidth, innerHeight, dpr2, hidden, w, h,
                   scale2, particles, animationId, pending, nextHandle, seed, painted,
                   frames>>

(* document.hidden is hd when the "visibilitychange" handler runs *)
onVisibility(hd) ==
    /\ Dispatch
    /\ hidden' = hd
    /\ last' = IF hd THEN "hidden" ELSE "visible"
    /\ IF phase # "listening"
       THEN UNCHANGED <<animationId, pending, nextHandle>>
       ELSE LET r == visibilityChange(hd, animationId, pending, nextHandle, ShouldRun)
            IN  /\ animationId' = r.id
                /\ pending' = r.pending
                /\ nextHandle' = r.next
    /\ UNCHANGED <<phase, visuals, motion, innerWidth, innerHeight, dpr2, w, h, scale2,
                   particles, mouse, seed, painted, frames>>

(* external code writes document.body.dataset.visuals *)
setVisuals(v) ==
    /\ Dispatch
    /\ v # visuals
    /\ visuals' = v
    /\ last' = "attr"
    /\ UNCHANGED <<phase, motion, innerWidth, innerHeight, dpr2, hidden, w, h, scale2,
                   particles, animationId, mouse, pending, nextHandle, seed, painted,
                   frames>>

(* the user changes the reduced-motion preference *)
setMotion(m) ==
    /\ Dispatch
    /\ motion # "unsupported"
    /\ m # motion
    /\ motion' = m
    /\ last' = "motion"
    /\ UNCHANGED <<phase, visuals, innerWidth, innerHeight, dpr2, hidden, w, h, scale2,
                   particles, animationId, mouse, pending, nextHandle, seed, painted,
                   frames>>

Next ==
    \/ init
    \/ step
    \/ \E sc \in Screens : onResize(sc)
    \/ \E e \in MouseEvents : onMove(e, "mousemove")
    \/ \E e \in TouchEvents : onMove(e, "touchmove")
    \/ onLeave("mouseout")
    \/ onLeave("touchend")
    \/ \E hd \in BOOLEAN : onVisibility(hd)
    \/ \E v \in AttrWrites : setVisuals(v)
    \/ \E m \in {"no-preference", "reduce"} : setMotion(m)

Spec == Init /\ [][Next]_vars

(* a frame callback is pending and step can run it: ENABLED <<step>>_vars,
   written out (every step removes the fired handle from the pending ones,
   so it changes vars) *)
stepEnabled == pending # {} /\ (~ShouldRun \/ frames < MaxFrames)

(* the host fires a pending frame callback of a visible document, and owes
   none to a hidden one (a backgrounded tab accumulates no frames): weak
   fairness of the step of a visible document, WF_vars(~hidden /\ step),
   with its enabling condition written out *)
hostFiresFrames == []<>(~(~hidden /\ stepEnabled)) \/ []<><<~hidden /\ step>>_vars

LiveSpec == Init /\ [][Next]_vars /\ hostFiresFrames

(***************************************************************************)
(* Properties                                                              *)
(***************************************************************************)
(* the run gate as the specification words it *)
GatePasses == motion # "reduce" /\ innerWidth > 640 /\ visuals # "off"

(* clamp(30, 120, floor(A / 16000)) for the current viewport *)
ClampedCount ==
    LET n == (innerWidth * innerHeight) \div 16000
    IN  IF n < 30 THEN 30 ELSE IF n > 120 THEN 120 ELSE n

(* C1: after a successful init the number of particles always equals the
   clamped count for the current viewport *)
C1_CountAlwaysClamped ==
    phase = "listening" => Len(particles) = ClampedCount

(* C2: at most one frame callback is pending in every reachable state *)
C2_AtMostOnePending == Cardinality(pending) <= 1

C2_Witness ==
    /\ last = "step" /\ frames = 2 /\ nextHandle >= 4
    /\ Cardinality(pending) = 1

(* C3: right after a visibility change observed visible with the gate
   passing, exactly one frame is pending and it is the stored handle *)
C3_VisibleSchedulesOne ==
    (phase = "listening" /\ last = "visible" /\ GatePasses)
        => (Cardinality(pending) = 1 /\ pending = {animationId})

(* hidden then visible: the second of two events issued a fresh handle *)
C3_Witness ==
    /\ phase = "listening" /\ last = "visible" /\ GatePasses
    /\ events = 2 /\ frames = 0 /\ nextHandle = 3 /\ pending = {2}

(* C4: shouldRun is true exactly when reduced motion is not reported, the
   width exceeds 640 and the attribute is not "off"; the gate the handlers
   read is that function of the current inputs *)
GateWidths == {0, 639, 640, 641, 1920}

C4_GateFunction ==
    /\ \A m \in Motions, wd \in GateWidths, a \in Attrs :
         /\ shouldRun(m, wd, a) = (m # "reduce" /\ wd > 640 /\ a # "off")
         /\ wd <= 640 => ~shouldRun(m, wd, a)
    /\ ShouldRun = GatePasses

C4_Witness ==
    /\ phase = "inert" /\ last = "init"
    /\ innerWidth = 640 /\ motion = "no-preference" /\ visuals = "on"

(* C5: a frame step that finds the gate false leaves no frame pending, the
   handle none, the surface cleared, and every particle as it was *)
C5_GateFailedStepStops ==
    [][last' = "stop" =>
         /\ pending' = {}
         /\ animationId' = NULL
         /\ painted' = [dots |-> <<>>, lines |-> <<>>]
         /\ particles' = particles]_vars

(* C6 as claimed: a gate that passes again restarts the animation without
   a visibility change.  Only a pending frame callback runs without a
   further host event, so with no frame pending nothing is ever scheduled
   until an event arrives: the claim requires a frame to be pending whenever
   the controller listens, the document is visible and the gate passes *)
C6_GateOpenMeansRunning ==
    (phase = "listening" /\ ~hidden /\ GatePasses) => pending # {}

(* C6 amended: a gate input that turns the gate from failing to passing
   schedules nothing by itself; the next visibility change observed visible
   with nothing scheduled and the gate passing schedules exactly one frame *)
C6_ReEnableNeedsVisibility ==
    /\ [][(phase = "listening" /\ ~GatePasses /\ GatePasses')
            => (pending' = pending /\ animationId' = animationId)]_vars
    /\ [][(phase = "listening" /\ pending = {} /\ last' = "visible" /\ GatePasses')
            => (pending' = {nextHandle} /\ animationId' = nextHandle)]_vars

C6_Witness ==
    /\ phase = "listening" /\ last = "attr"
    /\ GatePasses /\ ~hidden /\ pending = {} /\ animationId = NULL

(* C7: once listening with no frame pending, a frame becomes pending only
   through a visibility change observed visible, with nothing scheduled and
   the gate passing *)
C7_OnlyVisibilityRestarts ==
    [][(phase = "listening" /\ pending = {} /\ pending' # {})
         => (last' = "visible" /\ ~hidden' /\ animationId = NULL /\ GatePasses')]_vars

(* a handle beyond init's and the frame steps' was issued by a restart *)
C7_Witness ==
    /\ last = "visible" /\ frames >= 1
    /\ nextHandle = frames + 3 /\ pending = {animationId}

(* C8: an init that finds the gate closed leaves the controller inert, and
   inert it stays: no particle, no frame, no handler effect, whatever the
   host does afterwards *)
C8_DeniedInitIsInert ==
    /\ []((last = "init" /\ ~GatePasses) => phase = "inert")
    /\ [](phase = "inert" =>
            /\ particles = <<>> /\ painted = [dots |-> <<>>, lines |-> <<>>]
            /\ pending = {} /\ animationId = NULL /\ ~mouse.on)
    /\ [][phase = "inert" => phase' = "inert"]_vars

(* inert although the gate inputs were later changed to passing *)
C8_Witness ==
    /\ phase = "inert" /\ GatePasses /\ events = 3 /\ last = "move"

(* C9: right after every resize the particle count is the clamped count, for
   every viewport and whatever the count was before *)
C9_ResizeSetsCount ==
    /\ (phase = "listening" /\ last = "resize") => Len(particles) = ClampedCount
    /\ \A sc \in Screens :
         LET n == (sc.iw * sc.ih) \div 16000
         IN  Len(resize(particles, seed, sc.iw, sc.ih).ps)
               = IF n < 30 THEN 30 ELSE IF n > 120 THEN 120 ELSE n

(* zero area, from a larger set *)
C9_Witness ==
    /\ phase = "listening" /\ last = "resize"
    /\ innerWidth * innerHeight = 0 /\ Len(particles) = 30 /\ events >= 2

(* position of particle p within the margin of the current viewport *)
InMargin(p) ==
    /\ -2560 <= p.x /\ p.x <= 256 * innerWidth + 2560
    /\ -2560 <= p.y /\ p.y <= 256 * innerHeight + 2560

(* C10: from the first gate-passing step on, every particle's position is
   a number within the margin of the current viewport: -10 <= x <= width + 10
   and -10 <= y <= height + 10 *)
C10_AlwaysInMargin ==
    (phase = "listening" /\ frames >= 1) =>
        \A i \in 1..Len(particles) :
            particles[i].nan # "pv" /\ InMargin(particles[i])

(* C11: every gate-passing frame step ends by scheduling exactly one next
   frame, whose handle it stores; a pending frame goes away only by a
   gate-failed step or a visibility change observed hidden, and a step stops
   only with the gate failing.  With the host firing the pending frames of a
   visible document, every frame pending while the document is visible is
   followed by a further frame step, and the loop runs on to the frame bound
   of the exploration, unless a gate-failed step comes first or the document
   becomes hidden: it never stops by itself *)
C11_StepReschedules ==
    /\ [][last' = "step" =>
            /\ pending' = {nextHandle}
            /\ animationId' = nextHandle
            /\ nextHandle' = nextHandle + 1]_vars
    /\ [][(pending # {} /\ pending' = {}) => last' \in {"stop", "hidden"}]_vars
    /\ [][(last' = "stop") => ~GatePasses]_vars
    /\ \A n \in 0..(MaxFrames - 1) :
          (phase = "listening" /\ ~hidden /\ pending # {} /\ frames = n)
              ~> (frames = n + 1 \/ last = "stop" \/ hidden)
    /\ (phase = "listening" /\ ~hidden /\ pending # {})
          ~> (frames = MaxFrames \/ last = "stop" \/ hidden)

C11_Witness ==
    /\ last = "step" /\ frames = 2 /\ events = 0
    /\ ~hidden /\ GatePasses /\ pending = {3} /\ animationId = 3

(* the particles present before and after keep position and velocity *)
ParticlesHeldStill ==
    \A i \in 1..Min(Len(particles), Len(particles')) :
        /\ particles'[i].x = particles[i].x /\ particles'[i].y = particles[i].y
        /\ particles'[i].vx = particles[i].vx /\ particles'[i].vy = particles[i].vy
        /\ particles'[i].nan = particles[i].nan

(* C12: a visibility change observed hidden leaves no frame pending and the
   handle none; from there every event other than a visibility change
   observed visible keeps it so, is no frame step, and moves no particle *)
C12_HiddenStopsFrames ==
    /\ [][(phase = "listening" /\ last' = "hidden")
            => (pending' = {} /\ animationId' = NULL)]_vars
    /\ [][(phase = "listening" /\ pending = {} /\ animationId = NULL
            /\ last' # "visible")
            => /\ pending' = {} /\ animationId' = NULL
               /\ last' \notin {"step", "stop"}
               /\ ParticlesHeldStill]_vars

(* hidden observed with a frame pending, then a pointer event *)
C12_Witness ==
    /\ phase = "listening" /\ hidden /\ last = "move" /\ events = 2
    /\ visuals = "on" /\ motion = "unsupported" /\ GatePasses
    /\ pending = {} /\ animationId = NULL /\ mouse.on

(* C13: a resize keeps the first min(n, t) particles as they were, in order,
   ends with t particles, the appended ones fresh (inside the new viewport,
   initial speed, radius in range), and leaves the pointer state and the
   scheduled frame alone *)
C13_ResizeEditsTheEnd ==
    [][(phase = "listening" /\ last' = "resize") =>
         /\ Len(particles') = Target(innerWidth', innerHeight')
         /\ \A i \in 1..Min(Len(particles), Len(particles')) :
              particles'[i] = particles[i]
         /\ \A i \in (Len(particles) + 1)..Len(particles') :
              /\ particles'[i].nan = "none"
              /\ 0 <= particles'[i].x /\ particles'[i].x <= 256 * innerWidth'
              /\ 0 <= particles'[i].y /\ particles'[i].y <= 256 * innerHeight'
              /\ -77 <= particles'[i].vx /\ particles'[i].vx <= 77
              /\ -77 <= particles'[i].vy /\ particles'[i].vy <= 77
              /\ 154 <= particles'[i].r /\ particles'[i].r <= 614
         /\ mouse' = mouse
         /\ animationId' = animationId
         /\ pending' = pending]_vars

(* grown from 30 to 57 with the pointer engaged and a frame pending *)
C13_Witness ==
    /\ phase = "listening" /\ last = "resize" /\ events = 3
    /\ Len(particles) = 57 /\ mouse.on /\ pending # {}
    /\ particles[31] = createParticle(SeedAfter(seed, 1024 - 5 * 27), 1280, 720)

(* the velocity of particle i differs across the transition (NaN counts as
   one value: a velocity that was NaN and stays NaN has not changed) *)
VelocityChanged(i) ==
    \/ (particles[i].nan = "none") # (particles'[i].nan = "none")
    \/ /\ particles[i].nan = "none"
       /\ <<particles'[i].vx, particles'[i].vy>> # <<particles[i].vx, particles[i].vy>>

(* particle i, after the transition, is closer than mouse.radius to the pointer *)
NearPointerAfter(i) ==
    /\ mouse.on
    /\ particles'[i].nan # "pv"
    /\ LET dx == particles'[i].x - Px(mouse.x)
           dy == particles'[i].y - Px(mouse.y)
       IN  /\ Abs(dx) < Px(mouseRadius) /\ Abs(dy) < Px(mouseRadius)
           /\ dx * dx + dy * dy < Px(mouseRadius) * Px(mouseRadius)

(* C14: in a gate-passing frame step a velocity changes only for a particle
   whose post-wrap position is closer than 90 to a present pointer; with the
   pointer absent every velocity is kept and every position becomes the wrap
   of position plus velocity; no step, gate-passing or not, changes a radius
   or the number of particles *)
C14_StepMovesParticles ==
    /\ [][last' = "step" =>
            \A i \in 1..Len(particles) : VelocityChanged(i) => NearPointerAfter(i)]_vars
    /\ [][(last' = "step" /\ ~mouse.on) =>
            \A i \in 1..Len(particles) :
                /\ ~VelocityChanged(i)
                /\ particles[i].nan = "none" =>
                     /\ particles'[i].x = wrapAxis(particles[i].x + particles[i].vx, innerWidth)
                     /\ particles'[i].y = wrapAxis(particles[i].y + particles[i].vy, innerHeight)
                /\ particles[i].nan # "none" => particles'[i].nan = "pv"]_vars
    /\ [][last' \in {"step", "stop"} =>
            /\ Len(particles') = Len(particles)
            /\ \A i \in 1..Len(particles) : particles'[i].r = particles[i].r]_vars

(* the first frame after a pointer move with no resize in between: particle
   i still has the radius it was created with and lies near the pointer, and
   its velocity is no longer the one it was created with *)
C14_Witness ==
    /\ last = "step" /\ frames = 1 /\ events = 1 /\ mouse.on
    /\ innerWidth = 1280 /\ Len(particles) = 114
    /\ \E i \in 1..Len(particles) :
         LET c == createParticle(SeedAfter(seed, 1024 - 5 * (115 - i)), 1280, 720)
         IN  /\ particles[i].nan = "none"
             /\ particles[i].r = c.r
             /\ <<particles[i].vx, particles[i].vy>> # <<c.vx, c.vy>>
             /\ Abs(particles[i].x - Px(mouse.x)) < Px(mouseRadius)
             /\ Abs(particles[i].y - Px(mouse.y)) < Px(mouseRadius)
             /\ (particles[i].x - Px(mouse.x)) * (particles[i].x - Px(mouse.x))
                  + (particles[i].y - Px(mouse.y)) * (particles[i].y - Px(mouse.y))
                  < Px(mouseRadius) * Px(mouseRadius)

(* everything a pointer handler must leave alone *)
NonPointerState ==
    <<phase, visuals, motion, innerWidth, innerHeight, dpr2, hidden, w, h, scale2,
      particles, animationId, pending, nextHandle, seed, painted, frames>>

(* C15: after a move event the pointer is present at the event's coordinates,
   the first touch point for a touch event; after a leave event it is absent;
   the pointer handlers change nothing else; and the pointer state changes in
   no other transition, frame steps included *)
C15_PointerFollowsEvents ==
    /\ [][(phase = "listening" /\ last' = "move") =>
            /\ \/ \E e \in MouseEvents :
                     mouse' = [on |-> TRUE, x |-> e.clientX, y |-> e.clientY]
               \/ \E e \in TouchEvents :
                     mouse' = [on |-> TRUE, x |-> e.touches[1].clientX,
                                            y |-> e.touches[1].clientY]
            /\ UNCHANGED NonPointerState]_vars
    /\ [][(phase = "listening" /\ last' = "leave") =>
            /\ ~mouse'.on
            /\ UNCHANGED NonPointerState]_vars
    /\ [][mouse' # mouse => last' \in {"move", "leave"}]_vars
    /\ [][last' \in {"step", "stop"} => mouse' = mouse]_vars

(* a two-finger touch move handled after a frame, with the next frame pending *)
C15_Witness ==
    /\ phase = "listening" /\ last = "move" /\ frames = 1 /\ pending # {}
    /\ mouse = [on |-> TRUE, x |-> 700, y |-> 400]

(* the pair loop is checked on the first MaxScan particles of a frame *)
MaxScan == 12

Scanned == SubSeq(particles, 1, Min(Len(particles), MaxScan))

(* a particle at a numeric position *)
At(px, py) == [x |-> Px(px), y |-> Px(py), nan |-> "none"]

(* C16: after a gate-passing step, the pair loop has examined every unordered
   pair of distinct particles exactly once; a pair has a line exactly when
   both positions are numbers at a distance strictly below 120, and its alpha
   a (in 1/256000) is then 30720 - d with d the distance in 1/256 rounded
   down, that is 0.12 * (1 - d/120): within (0, 0.12], 0.06 at d = 60, no
   line at d = 120 *)
C16_LinesByDistance ==
    last = "step" =>
      LET ps == Scanned
          n == Len(ps)
          loop == pairLoop(n)
          lines == LinePairs(ps)
      IN  /\ Len(loop) = n
          /\ \A i \in 1..n : \A k \in 1..Len(loop[i]) :
                /\ loop[i][k][1] = i
                /\ loop[i][k][2] \in (1..n) \ {i}
          /\ \A a \in 1..n : \A b \in (a + 1)..n :
                Cardinality({k \in 1..Len(loop[a]) : loop[a][k] = <<a, b>>})
                  + Cardinality({k \in 1..Len(loop[b]) : loop[b][k] = <<b, a>>}) = 1
          /\ \A i \in 1..n : \A k \in 1..Len(loop[i]) :
                LET a == ps[loop[i][k][1]]
                    b == ps[loop[i][k][2]]
                    ax == IF a.x >= b.x THEN a.x - b.x ELSE b.x - a.x
                    ay == IF a.y >= b.y THEN a.y - b.y ELSE b.y - a.y
                    d2 == ax * ax + ay * ay
                    al == lineAlpha(a, b)
                IN  /\ al # {} <=> /\ a.nan # "pv" /\ b.nan # "pv"
                                   /\ ax < 30720 /\ ay < 30720
                                   /\ d2 < 30720 * 30720
                    /\ (al # {}) = (loop[i][k] \in lines)
                    /\ \A x \in al :
                         /\ 0 < x /\ x <= baseAlpha
                         /\ (baseAlpha - x) * (baseAlpha - x) <= d2
                         /\ d2 < (baseAlpha - x + 1) * (baseAlpha - x + 1)
          /\ lineAlpha(At(0, 0), At(60, 0)) = {baseAlpha \div 2}
          /\ lineAlpha(At(0, 0), At(0, 0)) = {baseAlpha}
          /\ lineAlpha(At(0, 0), At(0, maxDistance)) = {}

(* a frame after a pointer move in which particles 1 and 12 are joined by a
   line of alpha strictly between 0 and 0.12 and particles 1 and 2 are too
   far apart for one *)
C16_Witness ==
    /\ last = "step" /\ mouse.on /\ Len(particles) >= MaxScan
    /\ \E x \in 1..(baseAlpha - 1) : lineAlpha(particles[1], particles[12]) = {x}
    /\ lineAlpha(particles[1], particles[2]) = {}

(* C17: in every state between host callbacks the stored handle is null with
   no frame pending, or it is the handle of the one pending frame *)
C17_HandleTracksPending ==
    \/ animationId = NULL /\ pending = {}
    \/ animationId # NULL /\ pending = {animationId}

(* hidden cancelled the first frame and the return to visible scheduled the
   second, whose handle is the stored one *)
C17_Witness ==
    /\ phase = "listening" /\ last = "visible" /\ events = 2 /\ frames = 0
    /\ animationId = 2 /\ pending = {2}

(* C18: the repulsion never divides by a zero distance, so in every reachable
   state every particle's position and velocity are numbers *)
C18_RepulsionWellDefined ==
    \A i \in 1..Len(particles) : particles[i].nan = "none"
====
